---- MODULE Spec2Model ----
(***************************************************************************)
(* The account store (SqliteBackend), the password hasher, the request     *)
(* guard (get_user_from_request / get_client_ip) and the user endpoints of *)
(* the api-server crate, as a state machine.                               *)
(*                                                                         *)
(* Strings that the code inspects (header values, api keys, passwords,     *)
(* encoded hashes) are sequences of atoms: " " is a whitespace character,  *)
(* "," a comma, every other atom a block of non-blank characters.          *)
(* Option<T> is a sequence of length 0 (None) or 1 (Some).                 *)
(***************************************************************************)
EXTENDS Integers, Sequences, FiniteSets, TLC

\* ------------------------------------------------------------------ bounds
\* number of distinct clock readings (subsec_nanos seeds) create_user may see
NumSeeds == 2

\* ------------------------------------------------------------ input domains
UserIds == {"u1", "u2"}
Passwords == {<<"p1">>, <<"p2">>}
Seeds == 1..NumSeeds
\* the configured secret key (SRV_SECRET_KEY by default) or one argon2 rejects
Salts == {"t/xZkYvxfC8CSfTSH9ANiIR9t1SvLHqOYZ7vH4fp11s=", ""}
Tasks == {"t1", "t2"}

None == <<>>
Some(x) == <<x>>

\* ----------------------------------------------------------------- strings
RECURSIVE TrimStart(_)
TrimStart(s) == IF s # <<>> /\ Head(s) = " " THEN TrimStart(Tail(s)) ELSE s

RECURSIVE TrimEnd(_)
TrimEnd(s) ==
    IF s # <<>> /\ s[Len(s)] = " " THEN TrimEnd(SubSeq(s, 1, Len(s) - 1)) ELSE s

\* str::trim
Trim(s) == TrimEnd(TrimStart(s))

\* the first item of str::split(','): everything before the first comma
RECURSIVE SplitFirst(_)
SplitFirst(s) ==
    IF s = <<>> \/ Head(s) = "," THEN <<>> ELSE <<Head(s)>> \o SplitFirst(Tail(s))

\* the atoms that spell an IP address
Addrs == {"10.0.0.1", "::1"}

\* ------------------------------------------------------------------ errors
Ok(v) == [kind |-> "Ok", val |-> <<v>>]
Err(k) == [kind |-> k, val |-> <<>>]

to_status(kind) ==
    CASE kind = "UnauthenticatedUser" -> 401
      [] kind = "ForbiddenAccess" -> 403
      [] kind \in {"BadRequest", "InvalidResult", "UserConflict"} -> 400
      [] kind \in {"NotFound", "UnknownRoute"} -> 404
      [] kind = "TooManyRequests" -> 429
      [] OTHER -> 500

\* ------------------------------------------------------------------ hasher
\* argon2::hash_encoded: the encoded hash names the algorithm and embeds the
\* salt and the digest of (salt, password); it rejects a salt that is too short
hash_password(password, salt) ==
    IF salt = "" THEN Err("Argon2Error")
    ELSE Ok(<<"$argon2id$v=19$m=65536,t=10,p=4$", salt, "$">> \o password)

\* argon2::verify_encoded: decode the hash, recompute the digest, compare
verify_password(password, hash) ==
    IF Len(hash) < 3 \/ hash[1] # "$argon2id$v=19$m=65536,t=10,p=4$" \/ hash[3] # "$"
    THEN Err("Argon2Error")
    ELSE IF hash[2] = "" THEN Err("Argon2Error")
    ELSE Ok(SubSeq(hash, 4, Len(hash)) = password)

\* the tokens generate_api_string derives from the seeds
TokenOf == <<"k1", "k2", "k3", "k4">>

generate_api_string(seed) == <<TokenOf[seed]>>

\* ------------------------------------------------------------------- store
\* UserInfo keeping every column of the row
UserInfo_WithPassword(row) == row

UserInfo(row) ==
    [api_key |-> row.api_key, user_id |-> row.user_id, email_id |-> row.email_id]

HasUser(tbl, user_id) == \E i \in DOMAIN tbl : tbl[i].user_id = user_id

\* SqlInsert on a table declared without the PRIMARY KEY
SqlInsert_NoPrimaryKey(tbl, row) == [ok |-> TRUE, tbl |-> Append(tbl, row)]

\* INSERT INTO users: the PRIMARY KEY on user_id rejects a second row
SqlInsert(tbl, row) ==
    IF HasUser(tbl, row.user_id) THEN [ok |-> FALSE, tbl |-> tbl]
    ELSE [ok |-> TRUE, tbl |-> Append(tbl, row)]

\* SqlSelectByApiKey with the WHERE clause left out
SqlSelectByApiKey_NoWhere(tbl, api_key) == tbl

\* SELECT * FROM users WHERE api_key = ?, in storage order
SqlSelectByApiKey(tbl, api_key) ==
    LET Match(r) == r.api_key = api_key IN SelectSeq(tbl, Match)

\* SELECT * FROM users WHERE user_id = ?
SqlSelectById(tbl, user_id) ==
    LET Match(r) == r.user_id = user_id IN SelectSeq(tbl, Match)

\* SqlUpdatePassword with the WHERE clause left out
SqlUpdatePassword_NoWhere(tbl, user_id, v) ==
    [i \in DOMAIN tbl |-> [tbl[i] EXCEPT !.password = v]]

\* UPDATE users SET password = ? WHERE user_id = ?
SqlUpdatePassword(tbl, user_id, v) ==
    [i \in DOMAIN tbl |->
        IF tbl[i].user_id = user_id THEN [tbl[i] EXCEPT !.password = v] ELSE tbl[i]]

\* SqlUpdateApiKey as an upsert: a row is inserted when none matches
SqlUpdateApiKey_Upsert(tbl, user_id, v) ==
    IF HasUser(tbl, user_id)
    THEN [i \in DOMAIN tbl |->
            IF tbl[i].user_id = user_id THEN [tbl[i] EXCEPT !.api_key = v] ELSE tbl[i]]
    ELSE Append(tbl, [user_id |-> user_id, password |-> <<>>, api_key |-> v,
                      email_id |-> ""])

\* SqlUpdateApiKey on a table with a UNIQUE constraint on api_key: the
\* statement changes nothing when another row holds the value
SqlUpdateApiKey_Unique(tbl, user_id, v) ==
    IF \E i \in DOMAIN tbl : tbl[i].user_id # user_id /\ tbl[i].api_key = v THEN tbl
    ELSE [i \in DOMAIN tbl |->
            IF tbl[i].user_id = user_id THEN [tbl[i] EXCEPT !.api_key = v] ELSE tbl[i]]

\* UPDATE users SET api_key = ? WHERE user_id = ?
SqlUpdateApiKey(tbl, user_id, v) ==
    [i \in DOMAIN tbl |->
        IF tbl[i].user_id = user_id THEN [tbl[i] EXCEPT !.api_key = v] ELSE tbl[i]]

\* SqlDelete with the WHERE clause left out
SqlDelete_NoWhere(tbl, user_id) == [tbl |-> <<>>, rows_affected |-> Len(tbl)]

\* DELETE FROM users WHERE user_id = ?
SqlDelete(tbl, user_id) ==
    LET Keep(r) == r.user_id # user_id
        rest == SelectSeq(tbl, Keep)
    IN [tbl |-> rest, rows_affected |-> Len(tbl) - Len(rest)]

\* get_user_with_apikey with its key left unbound: any stored row is fetched
get_user_with_apikey_FirstRow(tbl, api_key, dbok) ==
    IF ~dbok THEN Err("PoolError")
    ELSE IF tbl = <<>> THEN Err("NotFound") ELSE Ok(UserInfo(tbl[1]))

\* fetch_optional(..).await?.ok_or(NotFound): dbok is whether the statement ran
get_user_with_apikey(tbl, api_key, dbok) ==
    IF ~dbok THEN Err("PoolError")
    ELSE LET m == SqlSelectByApiKey(tbl, api_key)
         IN IF m = <<>> THEN Err("NotFound") ELSE Ok(UserInfo(m[1]))

get_user_with_id(tbl, user_id, dbok) ==
    IF ~dbok THEN Err("PoolError")
    ELSE LET m == SqlSelectById(tbl, user_id)
         IN IF m = <<>> THEN Err("NotFound") ELSE Ok(UserInfo(m[1]))

get_all_users(tbl, dbok) ==
    IF ~dbok THEN Err("PoolError")
    ELSE Ok([i \in DOMAIN tbl |-> UserInfo(tbl[i])])

\* the outcome of a call: its result, the table it leaves, the statements it issued
Outcome(res, tbl, stmts) == [res |-> res, tbl |-> tbl, stmts |-> stmts]

create_user(tbl, user, seed, salt, dbok) ==
    LET password == hash_password(user.password, salt) IN
    IF password.kind # "Ok" THEN Outcome(password, tbl, <<>>)
    ELSE LET verified == verify_password(user.password, password.val[1]) IN
    IF verified.kind # "Ok" \/ ~verified.val[1]
    THEN Outcome(Err("PasswordHashError"), tbl, <<>>)
    ELSE LET new_user == [user_id |-> user.user_id, password |-> password.val[1],
                          api_key |-> generate_api_string(seed),
                          email_id |-> user.email_id]
             ins == SqlInsert(tbl, new_user)
         IN IF ~dbok \/ ~ins.ok THEN Outcome(Err("PoolError"), tbl, <<"INSERT">>)
            ELSE Outcome(Ok(new_user), ins.tbl, <<"INSERT">>)

delete_user(tbl, user_id, dbok) ==
    IF ~dbok THEN Outcome(Err("PoolError"), tbl, <<"DELETE">>)
    ELSE LET del == SqlDelete(tbl, user_id)
         IN IF del.rows_affected > 0 THEN Outcome(Ok(<<>>), del.tbl, <<"DELETE">>)
            ELSE Outcome(Err("NotFound"), del.tbl, <<"DELETE">>)

\* NoDataToUpdate with the guard of line 177 left out
NoDataToUpdate_NoGuard(user) == FALSE

\* line 177: neither field is present
NoDataToUpdate(user) == user.api_key = None /\ user.password = None

\* UserFound with the existence check left out
UserFound_Unchecked(tbl, user_id, dbok) == TRUE

\* line 183: self.get_user_with_id(user_id).await.is_ok()
UserFound(tbl, user_id, dbok) == get_user_with_id(tbl, user_id, dbok).kind = "Ok"

\* lines 195-196: the value bound to "SET password = ?"
BoundPassword(pass, password) == pass

\* update_user_password issuing its UPDATE before it looks at the hash
update_user_password_WriteFirst(tbl, pass, user_id, salt, dbok) ==
    LET password == hash_password(pass, salt)
        written == SqlUpdatePassword(tbl, user_id, pass)
    IN IF password.kind # "Ok" THEN Outcome(password, written, <<"UPDATE">>)
       ELSE IF ~dbok THEN Outcome(Err("PoolError"), tbl, <<"UPDATE">>)
       ELSE Outcome(Ok(<<>>), written, <<"UPDATE">>)

\* lines 185-200 of update_user: hash, self-check, then one UPDATE
update_user_password(tbl, pass, user_id, salt, dbok) ==
    LET password == hash_password(pass, salt) IN
    IF password.kind # "Ok" THEN Outcome(password, tbl, <<>>)
    ELSE LET verified == verify_password(pass, password.val[1]) IN
    IF verified.kind # "Ok" \/ ~verified.val[1]
    THEN Outcome(Err("PasswordHashError"), tbl, <<>>)
    ELSE IF ~dbok THEN Outcome(Err("PoolError"), tbl, <<"UPDATE">>)
    ELSE Outcome(Ok(<<>>),
                 SqlUpdatePassword(tbl, user_id, BoundPassword(pass, password.val[1])),
                 <<"UPDATE">>)

\* update_user_api_key examining rows_affected the way delete_user does
update_user_api_key_RowsChecked(tbl, api_key, user_id, dbok) ==
    IF ~dbok THEN Outcome(Err("PoolError"), tbl, <<"UPDATE">>)
    ELSE IF ~HasUser(tbl, user_id) THEN Outcome(Err("NotFound"), tbl, <<"UPDATE">>)
    ELSE Outcome(Ok(<<>>), SqlUpdateApiKey(tbl, user_id, api_key), <<"UPDATE">>)

\* lines 202-208 of update_user: one UPDATE
update_user_api_key(tbl, api_key, user_id, dbok) ==
    IF ~dbok THEN Outcome(Err("PoolError"), tbl, <<"UPDATE">>)
    ELSE Outcome(Ok(<<>>), SqlUpdateApiKey(tbl, user_id, api_key), <<"UPDATE">>)

\* ----------------------------------------------------------------- requests
\* a header value is text (visible ASCII) or opaque bytes
Text(s) == [text |-> TRUE, s |-> s]
Opaque == [text |-> FALSE, s |-> <<>>]

\* HeaderValue::to_str().ok()
to_str(h) == IF h.text THEN Some(h.s) ELSE None

\* str::parse::<IpAddr>(): the whole string must spell one address
parse_ip(s) == IF Len(s) = 1 /\ s[1] \in Addrs THEN Ok(s[1]) ELSE Err("AddrParseError")

\* headers.get(name).and_then(|v| v.to_str().ok())
HeaderStr(h) == IF h = None THEN None ELSE to_str(h[1])

\* get_client_ip falling back to X-Real-IP when X-Forwarded-For does not parse
get_client_ip_Fallback(request) ==
    LET xff == HeaderStr(request.x_forwarded_for)
        xri == HeaderStr(request.x_real_ip)
        fwd == IF xff # None THEN parse_ip(SplitFirst(xff[1])) ELSE Err("none")
    IN IF fwd.kind = "Ok" THEN fwd
       ELSE IF xri # None
       THEN LET ip == parse_ip(xri[1])
            IN IF ip.kind = "Ok" THEN ip ELSE Err("ForbiddenAccess")
       ELSE Err("ForbiddenAccess")

get_client_ip(request) ==
    LET xff == HeaderStr(request.x_forwarded_for)
        xri == HeaderStr(request.x_real_ip)
    IN IF xff # None
       THEN LET ip == parse_ip(SplitFirst(xff[1]))
            IN IF ip.kind = "Ok" THEN ip ELSE Err("ForbiddenAccess")
       ELSE IF xri # None
       THEN LET ip == parse_ip(xri[1])
            IN IF ip.kind = "Ok" THEN ip ELSE Err("ForbiddenAccess")
       ELSE Err("ForbiddenAccess")

\* ApiKeyOf reading a missing header as the empty string
ApiKeyOf_Default(request) ==
    LET h == HeaderStr(request.x_api_key)
    IN IF h = None THEN Some(<<>>) ELSE Some(Trim(h[1]))

\* lines 21-26: the trimmed text of the x-api-key header
ApiKeyOf(request) ==
    LET h == HeaderStr(request.x_api_key)
    IN IF h = None THEN None ELSE Some(Trim(h[1]))

get_user_from_request(request, tbl, dbok) ==
    LET api_key == ApiKeyOf(request) IN
    IF api_key = None THEN Outcome(Err("UnauthenticatedUser"), tbl, <<>>)
    ELSE LET user == get_user_with_apikey(tbl, api_key[1], dbok) IN
    IF user.kind # "Ok" THEN Outcome(user, tbl, <<"SELECT">>)
    ELSE LET ip == get_client_ip(request) IN
    IF ip.kind # "Ok" THEN Outcome(ip, tbl, <<"SELECT">>)
    ELSE Outcome(Ok([inner |-> user.val[1], ip |-> ip.val[1]]), tbl, <<"SELECT">>)

\* ------------------------------------------------------------------- state
VARIABLES
    salt,   \* the secret key the server was configured with
    users,  \* the rows of table users, in storage order
    tasks,  \* the update_user calls in flight, per task
    last    \* the handler that returned last and what it returned

vars == <<salt, users, tasks, last>>

Request(key, xff, xri) == [x_api_key |-> key, x_forwarded_for |-> xff, x_real_ip |-> xri]

\* a request whose headers the handler does not read
NoHeaders == Request(None, None, None)

Idle == [pc |-> "idle", user_id |-> "", password |-> None, api_key |-> None]

\* what a handler returned: its name, the user_id of its path or body, the
\* headers it read, the result, the statements and the backend calls it made,
\* the status of the response, and of its body the "status" field and the
\* "code" field of the serialized error (0 when the body has no error)
Returned(op, user_id, res, stmts, calls) ==
    [op |-> op, user_id |-> user_id, request |-> NoHeaders,
     kind |-> res.kind, val |-> res.val, stmts |-> stmts, calls |-> calls,
     status |-> IF res.kind = "Ok" THEN 201 ELSE 500,
     body_status |-> IF res.kind = "Ok" THEN 200 ELSE 500,
     code |-> IF res.kind = "Ok" THEN 0 ELSE to_status(res.kind)]

\* the tables the server may find when it starts: CREATE TABLE IF NOT EXISTS
\* keeps the rows an earlier run stored, under the secret key of that run
StoredTables ==
    {<<>>,
     <<[user_id |-> "u1",
        password |-> hash_password(<<"p1">>, "t/xZkYvxfC8CSfTSH9ANiIR9t1SvLHqOYZ7vH4fp11s=").val[1],
        api_key |-> generate_api_string(1), email_id |-> "e1"]>>}

Init ==
    /\ salt \in Salts
    /\ users \in StoredTables
    /\ tasks = [t \in Tasks |-> Idle]
    /\ last = Returned("init", "", Err("none"), <<>>, <<>>)

\* body is the request body as serde_json reads it: None when it is no NewUser
create_user_endpoint(body, seed, dbok) ==
    /\ IF body = None
       THEN /\ last' = Returned("create_user_endpoint", "", Err("LambdaError"),
                                <<>>, <<>>)
            /\ UNCHANGED users
       ELSE LET o == create_user(users, body[1], seed, salt, dbok)
            IN /\ users' = o.tbl
               /\ last' = Returned("create_user_endpoint", body[1].user_id, o.res,
                                   o.stmts, <<"create_user">>)
    /\ UNCHANGED <<salt, tasks>>

delete_user_endpoint(user_id, dbok) ==
    LET o == delete_user(users, user_id, dbok) IN
    /\ users' = o.tbl
    /\ last' = Returned("delete_user_endpoint", user_id, o.res, o.stmts,
                        <<"delete_user">>)
    /\ UNCHANGED <<salt, tasks>>

\* update_user_endpoint up to the first await that succeeds: the guard of line
\* 177 and the existence check of line 183. A call that finds the user stays in
\* flight, its writes are the next two steps.
update_user_endpoint(t, body, user_id, dbok) ==
    /\ tasks[t].pc = "idle"
    /\ IF body = None
       THEN /\ last' = Returned("update_user_endpoint", user_id, Err("LambdaError"),
                                <<>>, <<>>)
            /\ UNCHANGED <<salt, users, tasks>>
       ELSE IF NoDataToUpdate(body[1])
       THEN /\ last' = Returned("update_user_endpoint", user_id, Err("BadRequest"),
                                <<>>, <<"update_user">>)
            /\ UNCHANGED <<salt, users, tasks>>
       ELSE IF ~UserFound(users, user_id, dbok)
       THEN /\ last' = Returned("update_user_endpoint", user_id, Err("NotFound"),
                                <<"SELECT">>, <<"update_user">>)
            /\ UNCHANGED <<salt, users, tasks>>
       ELSE /\ tasks' = [tasks EXCEPT ![t] =
                  [pc |-> IF body[1].password # None THEN "password" ELSE "api_key",
                   user_id |-> user_id, password |-> body[1].password,
                   api_key |-> body[1].api_key]]
            /\ UNCHANGED <<salt, users, last>>

\* the statements an update_user call in flight has issued so far
StmtsSoFar(task) ==
    <<"SELECT">> \o
    (IF task.pc = "api_key" /\ task.password # None THEN <<"UPDATE">> ELSE <<>>)

\* update_user_set_password going on to the api_key after a failed UPDATE
update_user_set_password_Continue(t, dbok) ==
    /\ tasks[t].pc = "password"
    /\ LET task == tasks[t]
           o == update_user_password(users, task.password[1], task.user_id, salt, dbok)
       IN /\ users' = o.tbl
          /\ IF task.api_key # None
             THEN /\ tasks' = [tasks EXCEPT ![t].pc = "api_key"]
                  /\ UNCHANGED last
             ELSE /\ tasks' = [tasks EXCEPT ![t] = Idle]
                  /\ last' = Returned("update_user_endpoint", task.user_id, o.res,
                                      StmtsSoFar(task) \o o.stmts, <<"update_user">>)
    /\ UNCHANGED salt

\* lines 185-200, then either on to the api_key or Ok(())
update_user_set_password(t, dbok) ==
    /\ tasks[t].pc = "password"
    /\ LET task == tasks[t]
           o == update_user_password(users, task.password[1], task.user_id, salt, dbok)
       IN /\ users' = o.tbl
          /\ IF o.res.kind = "Ok" /\ task.api_key # None
             THEN /\ tasks' = [tasks EXCEPT ![t].pc = "api_key"]
                  /\ UNCHANGED last
             ELSE /\ tasks' = [tasks EXCEPT ![t] = Idle]
                  /\ last' = Returned("update_user_endpoint", task.user_id, o.res,
                                      StmtsSoFar(task) \o o.stmts, <<"update_user">>)
    /\ UNCHANGED salt

\* lines 202-208, then Ok(())
update_user_set_api_key(t, dbok) ==
    /\ tasks[t].pc = "api_key"
    /\ LET task == tasks[t]
           o == update_user_api_key(users, task.api_key[1], task.user_id, dbok)
       IN /\ users' = o.tbl
          /\ tasks' = [tasks EXCEPT ![t] = Idle]
          /\ last' = Returned("update_user_endpoint", task.user_id, o.res,
                              StmtsSoFar(task) \o o.stmts, <<"update_user">>)
    /\ UNCHANGED salt

list_all_users_endpoint(dbok) ==
    /\ last' = Returned("list_all_users_endpoint", "", get_all_users(users, dbok),
                        <<"SELECT">>, <<"get_all_users">>)
    /\ UNCHANGED <<salt, users, tasks>>

get_user_by_id_endpoint(user_id, dbok) ==
    /\ last' = Returned("get_user_by_id_endpoint", user_id,
                        get_user_with_id(users, user_id, dbok),
                        <<"SELECT">>, <<"get_user_with_id">>)
    /\ UNCHANGED <<salt, users, tasks>>

get_user_by_api_key_endpoint(request, dbok) ==
    /\ LET api_key == ApiKeyOf(request)
           r == IF api_key = None
                THEN Returned("get_user_by_api_key_endpoint", "",
                              Err("LambdaError"), <<>>, <<>>)
                ELSE Returned("get_user_by_api_key_endpoint", "",
                              get_user_with_apikey(users, api_key[1], dbok),
                              <<"SELECT">>, <<"get_user_with_apikey">>)
       IN last' = [r EXCEPT !.request = request]
    /\ UNCHANGED <<salt, users, tasks>>

\* ApiKeyGuard::from_request: Outcome::Success(guard) or
\* Outcome::Error((e.to_status(), e))
from_request(request, dbok) ==
    /\ LET o == get_user_from_request(request, users, dbok)
       IN last' = [Returned("from_request", "", o.res, o.stmts,
                            <<"get_user_from_request">>)
                   EXCEPT !.request = request,
                          !.status = IF o.res.kind = "Ok" THEN 200
                                     ELSE to_status(o.res.kind)]
    /\ UNCHANGED <<salt, users, tasks>>

\* ---------------------------------------------------------------- behaviours
Bodies(S) == {None} \cup {Some(x) : x \in S}

\* every handler, with its inputs drawn from the given sets: T the tasks that
\* call update_user, creates and updates the request bodies, lookups the
\* requests to get_user_by_api_key_endpoint, requests those to the guard
NextOver(T, creates, updates, lookups, requests) ==
    \/ \E body \in Bodies(creates), seed \in Seeds, dbok \in BOOLEAN :
          create_user_endpoint(body, seed, dbok)
    \/ \E t \in T, body \in Bodies(updates), user_id \in UserIds, dbok \in BOOLEAN :
          update_user_endpoint(t, body, user_id, dbok)
    \/ \E t \in T, dbok \in BOOLEAN : update_user_set_password(t, dbok)
    \/ \E t \in T, dbok \in BOOLEAN : update_user_set_api_key(t, dbok)
    \/ \E user_id \in UserIds, dbok \in BOOLEAN : delete_user_endpoint(user_id, dbok)
    \/ \E dbok \in BOOLEAN : list_all_users_endpoint(dbok)
    \/ \E user_id \in UserIds, dbok \in BOOLEAN : get_user_by_id_endpoint(user_id, dbok)
    \/ \E request \in lookups, dbok \in BOOLEAN :
          get_user_by_api_key_endpoint(request, dbok)
    \/ \E request \in requests, dbok \in BOOLEAN : from_request(request, dbok)

\* Spec: the account operations in full, one update_user call in flight at a
\* time next to the other handlers, and a few requests to the guard
NewUsers ==
    {[user_id |-> u, password |-> <<"p1">>, email_id |-> "e1"] : u \in UserIds}
        \cup {[user_id |-> u, password |-> <<"p2">>, email_id |-> "e2"] : u \in UserIds}

UpdateUsers ==
    [password : {None, Some(<<"p2">>)}, api_key : {None, Some(<<"k1">>)}]

Lookups == {Request(None, None, None), Request(Some(Text(<<"k1">>)), None, None)}

GuardRequests ==
    Lookups \cup {Request(Some(Text(<<"k1">>)), Some(Text(<<"10.0.0.1">>)), None)}

Next == NextOver({"t1"}, NewUsers, UpdateUsers, Lookups, GuardRequests)

Spec == Init /\ [][Next]_vars

\* SpecAuth: the guard on every shape of request, over stores that differ in
\* their api keys only
AuthNewUsers == [user_id : UserIds, password : {<<"p1">>}, email_id : {"e1"}]

AuthUpdateUsers ==
    [password : {None}, api_key : {None, Some(<<>>)}]
        \cup {[password |-> Some(<<"p1">>), api_key |-> None]}

KeyHeaders ==
    {None, Some(Opaque), Some(Text(<<" ", "k1", " ">>)), Some(Text(<<" ">>))}

ForwardedHeaders ==
    {None, Some(Opaque), Some(Text(<<"10.0.0.1", ",", " ", "bogus">>)),
     Some(Text(<<"bogus", ",", "10.0.0.1">>))}

RealIpHeaders == {None, Some(Text(<<"::1">>)), Some(Text(<<"bogus">>))}

Requests ==
    [x_api_key : KeyHeaders, x_forwarded_for : ForwardedHeaders,
     x_real_ip : RealIpHeaders]

AuthLookups == {Request(k, None, None) : k \in KeyHeaders}

NextAuth == NextOver({"t1"}, AuthNewUsers, AuthUpdateUsers, AuthLookups, Requests)

SpecAuth == Init /\ [][NextAuth]_vars

\* SpecConc: two update_user calls in flight at once, each with both fields,
\* next to create_user and a reader; every statement runs
ConcNewUsers == [user_id : UserIds, password : {<<"p1">>}, email_id : {"e1"}]

ConcUpdate ==
    [t \in Tasks |->
        IF t = "t1" THEN [password |-> Some(<<"p1">>), api_key |-> Some(<<"x1">>)]
        ELSE [password |-> Some(<<"p2">>), api_key |-> Some(<<"x2">>)]]

NextConc ==
    \/ \E user \in ConcNewUsers, seed \in Seeds :
          create_user_endpoint(Some(user), seed, TRUE)
    \/ \E t \in Tasks, user_id \in UserIds :
          update_user_endpoint(t, Some(ConcUpdate[t]), user_id, TRUE)
    \/ \E t \in Tasks : update_user_set_password(t, TRUE)
    \/ \E t \in Tasks : update_user_set_api_key(t, TRUE)
    \/ \E user_id \in UserIds : get_user_by_id_endpoint(user_id, TRUE)

SpecConc == Init /\ [][NextConc]_vars

\* ------------------------------------------------------------------ claims
AccountEndpoints ==
    {"create_user_endpoint", "update_user_endpoint", "delete_user_endpoint",
     "list_all_users_endpoint", "get_user_by_id_endpoint",
     "get_user_by_api_key_endpoint"}

\* the encoded hashes of the passwords a caller may supply
Hashes == {hash_password(p, s).val[1] : p \in Passwords, s \in Salts \ {""}}

\* C1: in every reachable state the password column of every account is an
\* output of hash_password and is never a raw password a caller supplied.
C1_StoredPasswordIsHash ==
    \A i \in DOMAIN users :
        users[i].password \in Hashes /\ users[i].password \notin Passwords

\* C2: a handler of an account endpoint that issued a statement to the store
\* called get_user_from_request first, and that call succeeded.
C2_StoreOnlyBehindGate ==
    (last.op \in AccountEndpoints /\ last.stmts # <<>>)
        => (last.calls # <<>> /\ last.calls[1] = "get_user_from_request")

\* C3: create_user with a user_id that already exists fails with the duplicate
\* key kind, not with a generic persistence error, and leaves the table as it was.
C3_DuplicateKeyKind ==
    [][(last'.op = "create_user_endpoint" /\ salt # "")
        => \A user \in NewUsers, seed \in Seeds :
             (HasUser(users, user.user_id)
                /\ create_user_endpoint(Some(user), seed, TRUE))
             => (last'.kind \in {"DuplicateKey", "UserConflict"} /\ users' = users)]_vars

\* C4: update_user with password and api_key both absent fails with BadRequest
\* and issues no statement, whether or not the account exists and whether or
\* not the store is reachable; the table is unchanged.
C4_EmptyUpdateIsBadRequest ==
    [][\A t \in Tasks, user_id \in UserIds, dbok \in BOOLEAN :
         update_user_endpoint(t, Some([password |-> None, api_key |-> None]),
                              user_id, dbok)
         => (/\ last'.op = "update_user_endpoint"
             /\ last'.kind = "BadRequest"
             /\ last'.stmts = <<>>
             /\ users' = users
             /\ tasks' = tasks)]_vars

C4_Witness ==
    /\ last.op = "update_user_endpoint"
    /\ last.kind = "BadRequest"
    /\ HasUser(users, last.user_id)
    /\ \E u \in UserIds : ~HasUser(users, u)

\* tbl without its i-th row
Without(tbl, i) == SubSeq(tbl, 1, i - 1) \o SubSeq(tbl, i + 1, Len(tbl))

\* C5: delete_user(u) fails and leaves the table unchanged when no account u
\* exists, with NotFound whenever its statement ran; when account u exists and
\* the statement ran it succeeds and removes exactly that row. From then on
\* get_user_with_id(u) finds an account exactly when one is stored, and an
\* account u appears only by a create_user(u) that succeeded.
C5_Delete ==
    [][/\ \A u \in UserIds, dbok \in BOOLEAN :
            (last'.op = "delete_user_endpoint" /\ delete_user_endpoint(u, dbok))
            => /\ ~HasUser(users, u)
                    => /\ users' = users
                       /\ last'.kind = IF dbok THEN "NotFound" ELSE "PoolError"
               /\ (HasUser(users, u) /\ dbok)
                    => /\ last'.kind = "Ok"
                       /\ ~HasUser(users', u)
                       /\ \E i \in DOMAIN users :
                            users[i].user_id = u /\ users' = Without(users, i)
       /\ \A u \in UserIds :
            (last'.op = "get_user_by_id_endpoint" /\ get_user_by_id_endpoint(u, TRUE))
            => /\ ~HasUser(users, u) => last'.kind = "NotFound"
               /\ HasUser(users, u)
                    => last'.kind = "Ok" /\ last'.val[1].user_id = u
       /\ \A u \in UserIds :
            (~HasUser(users, u) /\ HasUser(users', u))
            => /\ last'.op = "create_user_endpoint"
               /\ last'.kind = "Ok"
               /\ last'.user_id = u]_vars

C5_Witness ==
    /\ last.op = "delete_user_endpoint"
    /\ last.kind = "Ok"
    /\ ~HasUser(users, last.user_id)
    /\ Len(users) = 1

\* the text of the x-api-key header, blanks at both ends removed, if it has one
SentKey(request) ==
    IF request.x_api_key = None \/ ~request.x_api_key[1].text THEN None
    ELSE Some(Trim(request.x_api_key[1].s))

\* some stored account holds this api key
KeyHeld(tbl, key) == \E i \in DOMAIN tbl : tbl[i].api_key = key

\* C6: the guard on a request without the x-api-key header fails with
\* UnauthenticatedUser, whatever the table and the origin headers hold, and
\* issues no statement.
C6_MissingHeaderUnauthenticated ==
    (last.op = "from_request" /\ last.request.x_api_key = None)
        => (last.kind = "UnauthenticatedUser" /\ last.stmts = <<>> /\ last.val = <<>>)

C6_Witness ==
    /\ last.op = "from_request"
    /\ last.request.x_api_key = None
    /\ last.request.x_forwarded_for # None
    /\ users # <<>>
    /\ last.kind = "UnauthenticatedUser"

\* C7: when the x-api-key header is present and no stored account holds its
\* key, the guard fails with an authentication failure, never with the
\* store's NotFound.
C7_UnknownKeyIsAuthFailure ==
    (/\ last.op = "from_request"
     /\ SentKey(last.request) # None
     /\ ~KeyHeld(users, SentKey(last.request)[1])
     /\ last.kind # "PoolError")
        => last.kind \in {"UnauthenticatedUser", "ForbiddenAccess"}

\* the origin the request names: the first entry of X-Forwarded-For when that
\* header is text, else X-Real-IP when that is text
Origin(request) ==
    LET xff == request.x_forwarded_for
        xri == request.x_real_ip
    IN IF xff # None /\ xff[1].text THEN parse_ip(SplitFirst(xff[1].s))
       ELSE IF xri # None /\ xri[1].text THEN parse_ip(xri[1].s)
       ELSE Err("none")

\* C8: the guard returns Ok only when the x-api-key header is present, its
\* trimmed value is the api_key of a stored account and the origin resolves,
\* and then returns an account holding that key with that origin; and it
\* returns Ok whenever these hold and the lookup statement ran.
C8_OkExactlyWhenKnownKeyAndOrigin ==
    last.op = "from_request" =>
        LET key == SentKey(last.request)
            known == key # None /\ KeyHeld(users, key[1])
            origin == Origin(last.request)
        IN /\ last.kind = "Ok"
                => /\ known
                   /\ origin.kind = "Ok"
                   /\ \E i \in DOMAIN users : last.val[1].inner = UserInfo(users[i])
                   /\ last.val[1].inner.api_key = key[1]
                   /\ last.val[1].ip = origin.val[1]
           /\ (known /\ origin.kind = "Ok") => last.kind \in {"Ok", "PoolError"}
           /\ last.kind = "PoolError" => last.stmts = <<"SELECT">>

C8_Witness ==
    /\ last.op = "from_request"
    /\ last.kind = "Ok"
    /\ last.request.x_api_key = Some(Text(<<" ", "k1", " ">>))
    /\ Len(users) = 2
    /\ last.val[1].inner.user_id = users[2].user_id

\* C9: a request with a valid api key is refused with ForbiddenAccess, and no
\* account is returned, when it has neither origin header, when the first entry
\* of its X-Forwarded-For is no IP address, or when it has no X-Forwarded-For
\* and its X-Real-IP is no IP address.
C9_NoOriginForbidden ==
    (/\ last.op = "from_request"
     /\ SentKey(last.request) # None
     /\ KeyHeld(users, SentKey(last.request)[1])
     /\ last.kind # "PoolError"
     /\ LET xff == HeaderStr(last.request.x_forwarded_for)
            xri == HeaderStr(last.request.x_real_ip)
        IN \/ xff = None /\ xri = None
           \/ xff # None /\ (Len(SplitFirst(xff[1])) # 1 \/ SplitFirst(xff[1])[1] \notin Addrs)
           \/ xff = None /\ xri # None /\ (Len(xri[1]) # 1 \/ xri[1][1] \notin Addrs))
        => (last.kind = "ForbiddenAccess" /\ last.val = <<>>)

C9_Witness ==
    /\ last.op = "from_request"
    /\ last.kind = "ForbiddenAccess"
    /\ KeyHeld(users, <<"k1">>)
    /\ last.request.x_forwarded_for = Some(Text(<<"bogus", ",", "10.0.0.1">>))
    /\ last.request.x_real_ip = Some(Text(<<"::1">>))

\* C10: no two stored accounts have the same user_id, and no step of
\* update_user changes the user_id of a row.
C10_UserIdUnique ==
    /\ [](\A i, j \in DOMAIN users : users[i].user_id = users[j].user_id => i = j)
    /\ [][(tasks' # tasks /\ users' # users)
            => /\ Len(users') = Len(users)
               /\ \A i \in DOMAIN users : users'[i].user_id = users[i].user_id]_vars

C10_Witness ==
    /\ Len(users) = 2
    /\ last.op = "create_user_endpoint"
    /\ last.kind = "PoolError"
    /\ last.stmts = <<"INSERT">>
    /\ \E t \in Tasks : tasks[t].pc = "api_key" /\ tasks[t].password # None

\* C11: in every reachable state every stored account has a non-empty api_key:
\* create_user stores one and no update_user leaves an empty one.
C11_ApiKeyNonEmpty == \A i \in DOMAIN users : users[i].api_key # <<>>

ReadEndpoints ==
    {"list_all_users_endpoint", "get_user_by_id_endpoint",
     "get_user_by_api_key_endpoint", "from_request"}

\* the accounts a read returned
ReadAccounts ==
    IF last.op = "list_all_users_endpoint"
    THEN {last.val[1][j] : j \in DOMAIN last.val[1]}
    ELSE IF last.op = "from_request" THEN {last.val[1].inner}
    ELSE {last.val[1]}

\* C12: an account returned by get_user_with_id, get_user_with_apikey,
\* get_all_users or get_user_from_request has the fields user_id, api_key and
\* email_id of a stored row and no other field: no read returns the password.
C12_ReadsCarryNoPassword ==
    (last.op \in ReadEndpoints /\ last.kind = "Ok")
        => \A a \in ReadAccounts :
             /\ DOMAIN a = {"user_id", "api_key", "email_id"}
             /\ \E i \in DOMAIN users :
                  /\ a.user_id = users[i].user_id
                  /\ a.api_key = users[i].api_key
                  /\ a.email_id = users[i].email_id

C12_Witness ==
    /\ last.op = "list_all_users_endpoint"
    /\ last.kind = "Ok"
    /\ Len(last.val[1]) = 2
    /\ \E i \in DOMAIN users : users[i].password \in Passwords

\* C13: an update_user call with only api_key = k present that reaches its
\* write and returns Ok has set the api_key of account u to k and left every
\* other column and every other row as it was, and right after it
\* get_user_with_apikey(k) returns an account whose api_key is k, account u
\* itself when no other account held k.
C13_ApiKeyOnlyUpdate ==
    [][\A t \in Tasks :
         (tasks[t].pc = "api_key" /\ tasks[t].password = None
             /\ update_user_set_api_key(t, TRUE))
         => LET u == tasks[t].user_id
                k == tasks[t].api_key[1]
                found == get_user_with_apikey(users', k, TRUE)
            IN /\ last'.kind = "Ok"
               /\ \E i \in DOMAIN users :
                    users[i].user_id = u /\ users' = [users EXCEPT ![i].api_key = k]
               /\ found.kind = "Ok"
               /\ found.val[1].api_key = k
               /\ ~KeyHeld(users, k) => found.val[1].user_id = u]_vars

C15_StatusOfErrorKind ==
    (last.op \in AccountEndpoints /\ last.kind \notin {"Ok", "LambdaError"})
        => /\ last.status = to_status(last.kind)
           /\ last.body_status = last.status
           /\ last.code = last.status

\* C16: update_user with a field present on a user_id that has no stored
\* account fails with NotFound after its SELECT alone and changes nothing; a
\* call goes on to its writes only from a state where the account is stored,
\* and the statements of a call that wrote begin with the SELECT.
C16_MissingAccountIsNotFound ==
    /\ [](last.op = "update_user_endpoint" /\ last.stmts # <<>>
            => last.stmts[1] = "SELECT")
    /\ [][/\ \A user_id \in UserIds :
               ~HasUser(users, user_id)
               => \A t \in Tasks, body \in UpdateUsers, dbok \in BOOLEAN :
                    (~NoDataToUpdate(body)
                        /\ update_user_endpoint(t, Some(body), user_id, dbok))
                    => /\ last'.op = "update_user_endpoint"
                       /\ last'.user_id = user_id
                       /\ last'.kind = "NotFound"
                       /\ last'.stmts = <<"SELECT">>
                       /\ users' = users
                       /\ tasks' = tasks
          /\ \A t \in Tasks :
               (tasks[t].pc = "idle" /\ tasks'[t].pc # "idle")
               => (HasUser(users, tasks'[t].user_id) /\ users' = users)
          /\ users' # users
               => \/ tasks' = tasks
                  \/ \E t \in Tasks : tasks[t].pc # "idle" /\ tasks'[t] # tasks[t]]_vars

C16_Witness ==
    /\ last.op = "update_user_endpoint"
    /\ last.kind = "NotFound"
    /\ last.stmts = <<"SELECT">>
    /\ ~HasUser(users, last.user_id)
    /\ users # <<>>

\* C17 (as stated): a call with both fields present can be left half-applied in
\* either direction, so while its password is still to be written its api_key
\* write can run.
C17_EitherDirection ==
    \A t \in Tasks :
        (tasks[t].pc = "password" /\ tasks[t].api_key # None)
            => ENABLED update_user_set_api_key(t, TRUE)

\* C17 (amended): a call with both fields present writes its password first.
\* When that write fails the call returns with nothing written and issues no
\* api_key write; when it succeeds only the password of account u has changed;
\* when the api_key write then fails the table stays as the password write
\* left it: new password with the old api_key, never the other way round.
C17_HalfAppliedPasswordFirst ==
    [][\A t \in Tasks :
         (tasks[t].password # None /\ tasks[t].api_key # None)
         => /\ \A dbok \in BOOLEAN :
                 update_user_set_password(t, dbok)
                 => /\ Len(users') = Len(users)
                    /\ \A i \in DOMAIN users :
                         users'[i] = IF users[i].user_id = tasks[t].user_id
                                        /\ tasks'[t].pc = "api_key"
                                     THEN [users[i] EXCEPT
                                             !.password = tasks[t].password[1]]
                                     ELSE users[i]
                    /\ tasks'[t].pc = "api_key"
                         <=> (dbok /\ hash_password(tasks[t].password[1], salt).kind = "Ok")
                    /\ tasks'[t].pc # "api_key"
                         => (tasks'[t] = Idle /\ last'.kind # "Ok"
                             /\ last'.user_id = tasks[t].user_id)
            /\ update_user_set_api_key(t, FALSE)
                 => /\ users' = users
                    /\ last'.kind = "PoolError"
                    /\ last'.stmts = <<"SELECT", "UPDATE", "UPDATE">>]_vars

C17_Witness ==
    /\ last.op = "update_user_endpoint"
    /\ last.kind = "PoolError"
    /\ last.stmts = <<"SELECT", "UPDATE", "UPDATE">>
    /\ \E i \in DOMAIN users :
         /\ users[i].user_id = last.user_id
         /\ users[i].password = <<"p2">>
         /\ users[i].api_key = <<"k2">>

\* some update_user call on this user_id is in flight
InFlight(user_id) ==
    \E t \in Tasks : tasks[t].pc # "idle" /\ tasks[t].user_id = user_id

\* the passwords and the api keys the two concurrent calls ask for
RequestedPasswords == {ConcUpdate[t].password[1] : t \in Tasks}

RequestedApiKeys == {ConcUpdate[t].api_key[1] : t \in Tasks}

\* C18: with two update_user calls in flight on the same user_id, each write
\* sets its own column of account u to the value its call asked for, whatever
\* the other call wrote there, and touches nothing else; once no call on u is
\* in flight, an account that was updated holds in each of the two columns one
\* of the two requested values.
C18_LastWriterWins ==
    /\ [](\A i \in DOMAIN users :
            (~InFlight(users[i].user_id) /\ users[i].password \notin Hashes)
            => /\ users[i].password \in RequestedPasswords
               /\ users[i].api_key \in RequestedApiKeys)
    /\ [][\A t \in Tasks :
            LET task == tasks[t] IN
            /\ (update_user_set_password(t, TRUE)
                   /\ hash_password(task.password[1], salt).kind = "Ok")
                 => /\ Len(users') = Len(users)
                    /\ \A i \in DOMAIN users :
                         users'[i] = IF users[i].user_id = task.user_id
                                     THEN [users[i] EXCEPT !.password = task.password[1]]
                                     ELSE users[i]
            /\ update_user_set_api_key(t, TRUE)
                 => /\ Len(users') = Len(users)
                    /\ \A i \in DOMAIN users :
                         users'[i] = IF users[i].user_id = task.user_id
                                     THEN [users[i] EXCEPT !.api_key = task.api_key[1]]
                                     ELSE users[i]]_vars

\* both calls have returned and account u1 holds the password of the call of
\* t1 with the api_key of the call of t2, next to an account the calls left alone
C18_Witness ==
    /\ \A t \in Tasks : tasks[t].pc = "idle"
    /\ last.op = "update_user_endpoint"
    /\ last.kind = "Ok"
    /\ \E i \in DOMAIN users :
         /\ users[i].user_id = "u1"
         /\ users[i].password = ConcUpdate["t1"].password[1]
         /\ users[i].api_key = ConcUpdate["t2"].api_key[1]
    /\ \E i \in DOMAIN users : users[i].user_id = "u2" /\ users[i].password \in Hashes

\* the user_ids of the stored accounts
Ids(tbl) == {tbl[i].user_id : i \in DOMAIN tbl}

\* C19: the set of stored user_ids changes only by a create_user that
\* succeeded, which adds the requested id, or a delete_user that succeeded,
\* which removes the requested id; no step of update_user changes it, and a
\* read or the guard leaves the whole table as it was.
C19_IdSetFrame ==
    [][/\ Ids(users') # Ids(users)
            => /\ last'.kind = "Ok"
               /\ tasks' = tasks
               /\ \/ /\ last'.op = "create_user_endpoint"
                     /\ last'.user_id \notin Ids(users)
                     /\ Ids(users') = Ids(users) \cup {last'.user_id}
                  \/ /\ last'.op = "delete_user_endpoint"
                     /\ last'.user_id \in Ids(users)
                     /\ Ids(users') = Ids(users) \ {last'.user_id}
       /\ (tasks' = tasks /\ last'.op \in ReadEndpoints) => users' = users]_vars

C19_Witness ==
    /\ last.op = "create_user_endpoint"
    /\ last.kind = "Ok"
    /\ Ids(users) = UserIds
    /\ \E t \in Tasks : tasks[t].pc = "api_key" /\ tasks[t].password = None

\* C20: update_user fails with NotFound only when no account has the
\* user_id; when the SELECT of its existence check fails, the call returns the
\* persistence error.
C20_NoFailureSwallowed ==
    [][\A user_id \in UserIds :
         HasUser(users, user_id)
         => \A t \in Tasks, body \in UpdateUsers :
              (~NoDataToUpdate(body)
                  /\ update_user_endpoint(t, Some(body), user_id, FALSE))
              => (last'.kind = "PoolError" /\ last'.kind # "NotFound")]_vars

\* the address a header names: its first comma-separated entry when asked
\* for, the whole value otherwise; a value that is no text names none
Named(h, first) ==
    IF ~h.text THEN Err("none")
    ELSE parse_ip(IF first THEN SplitFirst(h.s) ELSE h.s)

\* C21: for a request whose key is known, the origin is the first entry of
\* X-Forwarded-For whenever that header is present, and the request is refused
\* with ForbiddenAccess when that entry is no address, whatever X-Real-IP
\* holds; X-Real-IP decides only when X-Forwarded-For is absent.
C21_OriginPreferenceOrder ==
    (/\ last.op = "from_request"
     /\ SentKey(last.request) # None
     /\ KeyHeld(users, SentKey(last.request)[1])
     /\ last.kind # "PoolError")
        => LET xff == last.request.x_forwarded_for
               xri == last.request.x_real_ip
               origin == IF xff # None THEN Named(xff[1], TRUE)
                         ELSE IF xri # None THEN Named(xri[1], FALSE)
                         ELSE Err("none")
           IN IF origin.kind = "Ok"
              THEN last.kind = "Ok" /\ last.val[1].ip = origin.val[1]
              ELSE last.kind = "ForbiddenAccess"

Presenting(key) == Request(Some(Text(key)), Some(Text(<<"10.0.0.1">>)), None)

\* the first row, in storage order, that holds this key
FirstHolder(tbl, key) ==
    CHOOSE i \in DOMAIN tbl :
        tbl[i].api_key = key /\ \A j \in 1..(i - 1) : tbl[j].api_key # key

\* C23: update_user writes an api_key that another account holds already:
\* the call returns Ok, both accounts hold the key afterwards, and the guard
\* on a request with that key returns the first of them in storage order,
\* whichever account the update was for. create_user stores the key of its
\* seed whether or not an account holds it.
C23_ApiKeyNotUnique ==
    [][/\ \A t \in Tasks :
            (tasks[t].pc = "api_key" /\ update_user_set_api_key(t, TRUE))
            => LET u == tasks[t].user_id
                   k == tasks[t].api_key[1]
                   others == {i \in DOMAIN users :
                                users[i].user_id # u /\ users[i].api_key = k}
                   guard == get_user_from_request(Presenting(k), users', TRUE)
               IN (HasUser(users, u) /\ others # {})
                  => /\ last'.kind = "Ok"
                     /\ \A i \in DOMAIN users' :
                          (users'[i].user_id = u \/ i \in others)
                          => users'[i].api_key = k
                     /\ guard.res.kind = "Ok"
                     /\ guard.res.val[1].inner =
                          UserInfo(users'[FirstHolder(users', k)])
       /\ (last'.op = "create_user_endpoint" /\ last'.kind = "Ok")
            => \A user \in NewUsers, seed \in Seeds :
                 create_user_endpoint(Some(user), seed, TRUE)
                 => (/\ Len(users') = Len(users) + 1
                     /\ users'[Len(users')].api_key = generate_api_string(seed))]_vars

\* the update of the second account gave it the key of the first, and the
\* guard on that key returns the first
C23_Witness ==
    /\ Len(users) = 2
    /\ users[1].api_key = <<"k1">>
    /\ users[2].api_key = <<"k1">>
    /\ last.op = "update_user_endpoint"
    /\ last.kind = "Ok"
    /\ last.stmts = <<"SELECT", "UPDATE">>
    /\ last.user_id = users[2].user_id
    /\ get_user_from_request(Presenting(<<"k1">>), users, TRUE).res.val[1].inner.user_id
         = users[1].user_id

\* C24: in every state, so in every state after a delete_user or an
\* update_user took a key from its holder, the guard fails on every request
\* that presents a key no stored account holds, whatever its origin headers.
C24_RevokedKeyFails ==
    \A k \in KeyHeaders :
        LET key == ApiKeyOf(Request(k, None, None))
        IN (key # None /\ ~KeyHeld(users, key[1]))
           => \A request \in Requests, dbok \in BOOLEAN :
                request.x_api_key = k
                => get_user_from_request(request, users, dbok).res.kind
                     \in {"NotFound", "PoolError"}

\* the key k1 was replaced by an update_user, no account holds it, and the
\* guard has refused a request that presents it from an origin that resolves
C24_Witness ==
    /\ last.op = "from_request"
    /\ last.kind = "NotFound"
    /\ SentKey(last.request) = Some(<<"k1">>)
    /\ Origin(last.request).kind = "Ok"
    /\ ~KeyHeld(users, <<"k1">>)
    /\ Len(users) = 1
    /\ users[1].api_key = <<>>

====
